---- MODULE Spec2Model ----
(***************************************************************************)
(* Model of lib/jobs/emc-diag-update-firmware.js: the EMC diag firmware    *)
(* update job (DiagUpdateFirmware).  One job instance runs _run(), a       *)
(* promise chain of agent calls; every promise callback is one action and  *)
(* the remote agent's answers are the environment's actions.               *)
(*                                                                         *)
(* The second part models the Linux command job (LinuxCommandJob) that the *)
(* job's unit tests describe: command dispatch, response validation and    *)
(* cataloging.  Spec runs a firmware update job, CmdSpec a command job,    *)
(* TwoSpec two firmware update jobs whose callbacks interleave.            *)
(*                                                                         *)
(* JavaScript values are records [t, s, n]: t is the type tag, s the text  *)
(* of a string (or the name of a function), n the value of a number or     *)
(* boolean.  JavaScript strings are TLA+ strings, taken apart with Len     *)
(* and SubSeq.  Errors are named by strings.                               *)
(***************************************************************************)
EXTENDS Integers, Sequences, FiniteSets, TLC

VARIABLES job, nodeIp, pc, calls, outstanding, resolved, doneCalls, err,
          body, parsedMode, attempts, waits, raised

\* the state of a firmware update job
fwVars == <<job, nodeIp, pc, calls, outstanding, resolved, doneCalls, err,
            body, parsedMode, attempts, waits, raised>>

VARIABLES cmdJob, hasSentCommands, replies, cmdPc, response, handled,
          catalogCalls, parsed, created, cmdErr, cmdDone

\* the state of a command dispatch job
cmdVars == <<cmdJob, hasSentCommands, replies, cmdPc, response, handled,
             catalogCalls, parsed, created, cmdErr, cmdDone>>

\* the agent clients constructed so far, and which job's callback is
\* running while the other job is suspended
VARIABLES diagTools, current, other

sysVars == <<diagTools, current, other>>

vars == <<fwVars, cmdVars, sysVars>>

(***************************************************************************)
(* JavaScript values                                                       *)
(***************************************************************************)
Undef == [t |-> "undefined", s |-> "", n |-> 0]

Str(x) == [t |-> "string", s |-> x, n |-> 0]

Num(x) == [t |-> "number", s |-> "", n |-> x]

Bool(b) == [t |-> "boolean", s |-> "", n |-> IF b THEN 1 ELSE 0]

Func(name) == [t |-> "function", s |-> name, n |-> 0]

\* ToBoolean of a value, as used by `||` and `!`
Truthy(v) ==
    CASE v.t = "undefined" -> FALSE
      [] v.t = "boolean"   -> v.n = 1
      [] v.t = "number"    -> v.n # 0
      [] v.t = "string"    -> v.s # ""
      [] OTHER             -> TRUE

CharAt(str, i) == SubSeq(str, i, i)

Digits == <<"0", "1", "2", "3", "4", "5", "6", "7", "8", "9">>

RECURSIVE DecimalNat(_)
DecimalNat(k) ==
    IF k < 10 THEN Digits[k + 1]
    ELSE DecimalNat(k \div 10) \o Digits[(k % 10) + 1]

\* Number-to-string conversion of an integer
DecimalString(k) == IF k < 0 THEN "-" \o DecimalNat(-k) ELSE DecimalNat(k)

\* String(value): the text of a value
JsToString(v) ==
    CASE v.t = "string"    -> v.s
      [] v.t = "number"    -> DecimalString(v.n)
      [] v.t = "boolean"   -> IF v.n = 1 THEN "true" ELSE "false"
      [] v.t = "undefined" -> "undefined"
      [] OTHER             -> "function " \o v.s \o "() { [native code] }"

(***************************************************************************)
(* parseInt(mode), line 112                                                *)
(***************************************************************************)
HexChars == <<"0", "1", "2", "3", "4", "5", "6", "7", "8", "9",
              "a", "b", "c", "d", "e", "f">>

HexUpper == <<"0", "1", "2", "3", "4", "5", "6", "7", "8", "9",
              "A", "B", "C", "D", "E", "F">>

\* value of character c as a digit of the radix, -1 when it is not one
DigitValue(c, radix) ==
    IF \E i \in 1..radix : HexChars[i] = c \/ HexUpper[i] = c
    THEN (CHOOSE i \in 1..radix : HexChars[i] = c \/ HexUpper[i] = c) - 1
    ELSE -1

IsWhiteSpace(c) == c \in {" ", "\t", "\n", "\r"}

RECURSIVE StripLeadingWhiteSpace(_)
StripLeadingWhiteSpace(str) ==
    IF Len(str) > 0 /\ IsWhiteSpace(CharAt(str, 1))
    THEN StripLeadingWhiteSpace(Tail(str))
    ELSE str

\* longest prefix of digits of the radix: [seen, n]
RECURSIVE ParseDigits(_, _, _, _)
ParseDigits(str, radix, seen, acc) ==
    IF Len(str) > 0 /\ DigitValue(CharAt(str, 1), radix) >= 0
    THEN ParseDigits(Tail(str), radix, TRUE,
                     acc * radix + DigitValue(CharAt(str, 1), radix))
    ELSE [seen |-> seen, n |-> acc]

\* parseInt without a radix argument: [nan, n]
ParseInt(v) ==
    LET s0   == StripLeadingWhiteSpace(JsToString(v))
        neg  == Len(s0) > 0 /\ CharAt(s0, 1) = "-"
        s1   == IF Len(s0) > 0 /\ CharAt(s0, 1) \in {"-", "+"}
                THEN Tail(s0) ELSE s0
        hex  == Len(s1) >= 2 /\ SubSeq(s1, 1, 2) \in {"0x", "0X"}
        s2   == IF hex THEN SubSeq(s1, 3, Len(s1)) ELSE s1
        r    == ParseDigits(s2, IF hex THEN 16 ELSE 10, FALSE, 0)
    IN  [nan |-> ~r.seen, n |-> IF neg THEN 0 - r.n ELSE r.n]

(***************************************************************************)
(* lodash helpers used by the job                                          *)
(***************************************************************************)
\* _.startsWith(string, target): the text of the value begins with target
StartsWith(v, target) ==
    LET str == IF v.t = "undefined" THEN "" ELSE JsToString(v)
    IN  Len(str) >= Len(target) /\ SubSeq(str, 1, Len(target)) = target

LowerChars == <<"a", "b", "c", "d", "e", "f", "g", "h", "i", "j", "k", "l", "m",
                "n", "o", "p", "q", "r", "s", "t", "u", "v", "w", "x", "y", "z">>

UpperChars == <<"A", "B", "C", "D", "E", "F", "G", "H", "I", "J", "K", "L", "M",
                "N", "O", "P", "Q", "R", "S", "T", "U", "V", "W", "X", "Y", "Z">>

ToUpperCase(c) ==
    IF \E i \in 1..26 : LowerChars[i] = c
    THEN UpperChars[CHOOSE i \in 1..26 : LowerChars[i] = c]
    ELSE c

\* _.capitalize(string): the first character in upper case
Capitalize(v) ==
    LET str == IF v.t = "undefined" THEN "" ELSE JsToString(v)
    IN  IF Len(str) = 0 THEN ""
        ELSE ToUpperCase(CharAt(str, 1)) \o SubSeq(str, 2, Len(str))

(***************************************************************************)
(* Mode tables, lines 39-53.  A table is an object literal: a lookup of a  *)
(* name it does not own falls through to Object.prototype.                 *)
(***************************************************************************)
ObjectPrototypeNames ==
    {"constructor", "toString", "toLocaleString", "valueOf",
     "hasOwnProperty", "isPrototypeOf", "propertyIsEnumerable"}

\* object[key] on an object literal whose own properties are `own`
PropertyLookup(own, key) ==
    LET name == JsToString(key)
    IN  IF name \in DOMAIN own THEN Str(own[name])
        ELSE IF name \in ObjectPrototypeNames THEN Func(name)
        ELSE Undef

spiModeMapping ==
    [k \in {"fullbios", "bios", "uefi", "serdes", "post", "me"} |->
        CASE k = "fullbios" -> "0"
          [] k = "bios"     -> "1"
          [] k = "uefi"     -> "2"
          [] k = "serdes"   -> "3"
          [] k = "post"     -> "4"
          [] k = "me"       -> "5"]

bmcModeMapping ==
    [k \in {"ssp", "bmcapp", "bootblock", "adaptivecooling", "fullbmc"} |->
        CASE k = "ssp"             -> "0x142"
          [] k = "bmcapp"          -> "0x140"
          [] k = "bootblock"       -> "0x144"
          [] k = "adaptivecooling" -> "0x145"
          [] k = "fullbmc"         -> "0x5f"]

\* faulty variant: a numeric mode is looked up in the mapping as well
parseSpiModeLookupOnly(mode) == PropertyLookup(spiModeMapping, mode)

\* DiagUpdateFirmware.prototype.parseSpiMode
parseSpiMode(mode) ==
    IF ParseInt(mode).nan
    THEN PropertyLookup(spiModeMapping, mode)
    ELSE Str(JsToString(mode))

\* DiagUpdateFirmware.prototype.parseBmcMode
parseBmcMode(mode) ==
    IF ~StartsWith(mode, "0x")
    THEN PropertyLookup(bmcModeMapping, mode)
    ELSE mode

spiValidModes == {"0", "1", "2", "3", "4", "5"}

bmcValidModes == {"0x142", "0x140", "0x144", "0x145", "0x5f"}

\* faulty variant: the translated mode is not validated
isInUnchecked(v, list) == TRUE

\* assert.isIn(value, list): passes when the text of the value is in the list
isIn(v, list) == (IF v.t = "undefined" THEN "" ELSE JsToString(v)) \in list

(***************************************************************************)
(* Construction, lines 29-57                                               *)
(***************************************************************************)
retryCount == 6

retryDuration == 5000

diagImagePath == "/uploads"

\* values of options.imageMode the model runs the job with
ImageModes ==
    {Str(x) : x \in {"fullbios", "bios", "uefi", "serdes", "post", "me"}}
    \cup {Num(k) : k \in -1..6}
    \cup {Str(x) : x \in {"0", "1", "2", "3", "4", "5", "6", "03", "3abc",
                          " 3", "0x3", "", "bogus", "toString", "constructor"}}
    \cup {Str(x) : x \in {"ssp", "bmcapp", "bootblock", "adaptivecooling",
                          "fullbmc"}}
    \cup {Str(x) : x \in {"0x142", "0x140", "0x144", "0x145", "0x5f",
                          "0x999", "0x", "0X142"}}
    \cup {Undef}

\* values of options.firmwareType
FirmwareTypes ==
    {Str("bmc"), Str("spi"), Str("Bmc"), Str("bios"), Str(""), Undef}

\* values of options.skipReset
SkipResets == {Bool(TRUE), Bool(FALSE), Undef}

\* values of context.nodeIp: the dot-separated parts of the address
NodeIps == {<<10, 1, 1, 3>>, <<10, 1, 1>>, <<10, 1, 1, 256>>}

\* the fields the constructor sets on the job
\* this.diagTool = {}: a reference to no agent client
NoDiagTool == 0

DiagUpdateFirmware(options, context) ==
    [nodeId        |-> context.target,
     imageUrl      |-> options.imageUrl,
     imageName     |-> options.imageName,
     imageMode     |-> options.imageMode,
     firmwareType  |-> options.firmwareType,
     skipReset     |-> IF Truthy(options.skipReset) THEN options.skipReset
                       ELSE Bool(FALSE),
     diagImagePath |-> Str(diagImagePath),
     diagTool      |-> NoDiagTool,
     retryCount    |-> retryCount,
     retryDuration |-> retryDuration]

(***************************************************************************)
(* The agent's answer to updateFirmware('spi', ...)                        *)
(***************************************************************************)
ResetPrompt == "Issue warm reset NOW!"

\* greatest length of a result array the agent answers with
MaxResultLen == 3

\* an entry of result: k and atd say whether the entry and its
\* atomic_test_data are objects, sfu is secure_firmware_update
EntryNull == [k |-> "undefined", atd |-> "undefined", sfu |-> Undef]

EntryNoData == [k |-> "object", atd |-> "undefined", sfu |-> Undef]

EntryNoFlag == [k |-> "object", atd |-> "object", sfu |-> Undef]

EntryFlag(x) == [k |-> "object", atd |-> "object", sfu |-> Str(x)]

Entries ==
    {EntryNull, EntryNoData, EntryNoFlag, EntryFlag(ResetPrompt),
     EntryFlag("Issue warm reset NOW")}

\* result as a JSON array
ArrayOf(seq) ==
    [kind |-> "array", hasLength |-> TRUE, length |-> Len(seq),
     props |-> [key \in {DecimalString(i - 1) : i \in 1..Len(seq)} |->
                  seq[CHOOSE i \in 1..Len(seq) : DecimalString(i - 1) = key]]]

\* result as a JSON object that is not an array
ObjectOf(hasLength, length, props) ==
    [kind |-> "object", hasLength |-> hasLength, length |-> length,
     props |-> props]

NoResult ==
    [kind |-> "undefined", hasLength |-> FALSE, length |-> 0,
     props |-> [key \in {} |-> EntryNull]]

Results ==
    {ArrayOf(seq) : seq \in UNION {[1..k -> Entries] : k \in 0..MaxResultLen}}
    \cup {ObjectOf(FALSE, 0, [key \in {} |-> EntryNull]),
          ObjectOf(FALSE, 0, [key \in {"NaN"} |-> EntryFlag(ResetPrompt)]),
          ObjectOf(TRUE, 2, [key \in {"0"} |-> EntryFlag(ResetPrompt)]),
          ObjectOf(TRUE, 1, [key \in {"-1"} |-> EntryFlag(ResetPrompt)]),
          NoResult}

NoBody == [defined |-> FALSE, result |-> NoResult]

Bodies == {NoBody} \cup {[defined |-> TRUE, result |-> r] : r \in Results}

\* faulty variant: the last entry of result is read
ReadResetFlagLast(b) ==
    IF ~b.defined \/ b.result.kind = "undefined"
    THEN [threw |-> TRUE, resetFlag |-> Undef]
    ELSE LET key   == IF b.result.hasLength
                      THEN DecimalString(b.result.length - 1) ELSE "NaN"
             entry == IF key \in DOMAIN b.result.props
                      THEN b.result.props[key] ELSE EntryNull
         IN  IF entry.k = "undefined" \/ entry.atd = "undefined"
             THEN [threw |-> TRUE, resetFlag |-> Undef]
             ELSE [threw |-> FALSE, resetFlag |-> entry.sfu]

\* body.result[body.result.length-2].atomic_test_data.secure_firmware_update
\* inside try/catch: [threw, resetFlag]
ReadResetFlag(b) ==
    IF ~b.defined \/ b.result.kind = "undefined"
    THEN [threw |-> TRUE, resetFlag |-> Undef]
    ELSE LET key   == IF b.result.hasLength
                      THEN DecimalString(b.result.length - 2) ELSE "NaN"
             entry == IF key \in DOMAIN b.result.props
                      THEN b.result.props[key] ELSE EntryNull
         IN  IF entry.k = "undefined" \/ entry.atd = "undefined"
             THEN [threw |-> TRUE, resetFlag |-> Undef]
             ELSE [threw |-> FALSE, resetFlag |-> entry.sfu]

\* parseFailed, line 182
ParseFailed(b) ==
    LET r == ReadResetFlag(b)
    IN  ~(r.resetFlag = Str(ResetPrompt)) \/ r.threw

(***************************************************************************)
(* The Linux command job: data                                             *)
(***************************************************************************)
\* greatest number of tasks in a response
MaxTasks == 2

\* greatest number of command requests a node makes
MaxPulls == 2

\* a command of options.commands
Command(command, catalog, codes) ==
    [command |-> command, catalog |-> catalog, codes |-> codes]

NoCatalog == [defined |-> FALSE, format |-> "", source |-> ""]

Catalog(format, source) ==
    [defined |-> TRUE, format |-> format, source |-> source]

NoCodes == [defined |-> FALSE, codes |-> {}]

Codes(codes) == [defined |-> TRUE, codes |-> codes]

\* values of options.commands
CommandLists ==
    {<<>>,
     <<Command("test", Catalog("raw", "test"), Codes({1, 127}))>>,
     <<Command("test", Catalog("raw", "test"), NoCodes),
       Command("test 2", NoCatalog, Codes({1, 127}))>>}

\* buildCommands: a command in the form the node consumes
BuildCommand(c) ==
    [cmd |-> c.command,
     format |-> c.catalog.format,
     source |-> c.catalog.source,
     catalog |-> c.catalog.defined,
     acceptedResponseCodes |-> c.codes]

buildCommands(commands) ==
    [i \in 1..Len(commands) |-> BuildCommand(commands[i])]

\* the fields the constructor sets on the job
LinuxCommandJob(options, context) ==
    [nodeId |-> context.target,
     commands |-> buildCommands(options.commands),
     runOnlyOnce |-> options.runOnlyOnce]

\* a task of a response: its error code if any, the codes it accepts if
\* given, and whether it is flagged for cataloging
TaskResult(hasError, code, accepted, catalog) ==
    [hasError |-> hasError, code |-> code, accepted |-> accepted,
     catalog |-> catalog]

TaskResults ==
    {TaskResult(FALSE, 0, NoCodes, c) : c \in BOOLEAN}
    \cup {TaskResult(TRUE, 1, a, c) : a \in {NoCodes, Codes({1, 127})},
                                      c \in BOOLEAN}
    \cup {TaskResult(TRUE, 2, Codes({1, 127}), c) : c \in BOOLEAN}

\* values of data.tasks
Responses == UNION {[1..k -> TaskResults] : k \in 0..MaxTasks}

\* an output of the parser
ParsedResult(store, hasError, hasSource, source, data) ==
    [store |-> store, hasError |-> hasError, hasSource |-> hasSource,
     source |-> source, data |-> data]

\* the outputs the parser can give for the i-th task
ParsedResults(i) ==
    {ParsedResult(st, FALSE, hs, IF hs THEN "test-source" ELSE "",
                  "test data " \o DecimalString(i)) :
        st \in BOOLEAN, hs \in BOOLEAN}
    \cup {ParsedResult(st, TRUE, TRUE, "test-error-source", "") :
              st \in BOOLEAN}

CmdError(kind, tasks) == [kind |-> kind, tasks |-> tasks]

NoCmdError == CmdError("", <<>>)

CmdNoArgument == CmdError("undefined", <<>>)

FailureError(tasks) == CmdError("Error: Encountered a failure", tasks)

PersistError == CmdError("Error: catalogs.create failed", <<>>)

NoPayload == [payload |-> FALSE, identifier |-> "", tasks |-> <<>>]

Payload(identifier, tasks) ==
    [payload |-> TRUE, identifier |-> identifier, tasks |-> tasks]

\* no command job in this run
NoCommandJob ==
    /\ cmdJob = LinuxCommandJob([commands |-> <<>>, runOnlyOnce |-> TRUE],
                                [target |-> ""])
    /\ hasSentCommands = FALSE
    /\ replies = <<>>
    /\ cmdPc = "absent"
    /\ response = <<>>
    /\ handled = 0
    /\ catalogCalls = <<>>
    /\ parsed = <<>>
    /\ created = <<>>
    /\ cmdErr = NoCmdError
    /\ cmdDone = <<>>

(***************************************************************************)
(* State of one run                                                        *)
(*   pc          the pending callback, or the agent call being awaited     *)
(*   calls       the agent operations invoked so far, in order             *)
(*   outstanding the number of agent calls that have not returned          *)
(*   resolved    history: the number of agent calls that have succeeded    *)
(*   doneCalls   the arguments of the calls of _done, in order             *)
(*   err         the rejection travelling down the chain                   *)
(*   body        the answer to updateFirmware                              *)
(*   parsedMode  _imageMode of updateBmc / updateSpi                       *)
(*   attempts    discovery attempts made inside retrySyncDiscovery         *)
(*   waits       the delays waited between discovery attempts              *)
(*   raised      history: the first failure of the run                     *)
(***************************************************************************)
NoArgument == "undefined"

NoError == ""

NotRaised == [step |-> "", error |-> NoError, ncalls |-> 0]

AgentErrors == {"ETIMEDOUT", "ECONNRESET"}

IsIPError == "AssertionError: isIP"

IsInError == "AssertionError: isIn"

NotAFunctionError == "TypeError: self[method] is not a function"

ResetFlagError == "Error: Failed to get reset flags from diag"

DiscoveryError == "Error: discovery timed out"

DoneError == "Error: thrown by _done"

Call(op, args) == [op |-> op, args |-> args]

\* the state after construction, for options.imageMode among `modes`
InitWith(modes) ==
    /\ \E mode \in modes, type \in FirmwareTypes, skip \in SkipResets :
          job = DiagUpdateFirmware(
                    [imageUrl     |-> Str("http://server/bmc.bin"),
                     imageName    |-> Str("bmc.bin"),
                     imageMode    |-> mode,
                     firmwareType |-> type,
                     skipReset    |-> skip],
                    [target |-> "node1"])
    /\ nodeIp \in NodeIps
    /\ pc = "run"
    /\ calls = <<>>
    /\ outstanding = 0
    /\ resolved = 0
    /\ doneCalls = <<>>
    /\ err = NoError
    /\ body = NoBody
    /\ parsedMode = Undef
    /\ attempts = 0
    /\ waits = <<>>
    /\ raised = NotRaised

\* a job that is constructed and not yet run
Constructed(j, ip) ==
    [job |-> j, nodeIp |-> ip, pc |-> "run", calls |-> <<>>,
     outstanding |-> 0, resolved |-> 0, doneCalls |-> <<>>, err |-> NoError,
     body |-> NoBody, parsedMode |-> Undef, attempts |-> 0, waits |-> <<>>,
     raised |-> NotRaised]

\* one job only: nothing is suspended
SingleJob ==
    /\ diagTools = <<>>
    /\ current = 1
    /\ other = Constructed(DiagUpdateFirmware(
                               [imageUrl |-> Undef, imageName |-> Undef,
                                imageMode |-> Undef, firmwareType |-> Undef,
                                skipReset |-> Undef],
                               [target |-> ""]),
                           <<>>)

Init == InitWith(ImageModes) /\ NoCommandJob /\ SingleJob

\* a callback or an agent call fails: the chain skips to .catch
Reject(step, error) ==
    /\ pc' = "catch"
    /\ err' = error
    /\ raised' = IF raised = NotRaised
                 THEN [step |-> step, error |-> error, ncalls |-> Len(calls)]
                 ELSE raised

\* new DiagTool(settings, nodeId): an agent client, with the calls made
\* on it
DiagTool(settings, nodeId) ==
    [host |-> settings.host, nodeId |-> nodeId, received |-> <<>>]

\* a callback invokes an operation of the agent client `ref` of `tools`
\* and returns its promise
InvokeOn(tools, ref, op, args, at) ==
    /\ diagTools' = [tools EXCEPT
                        ![ref].received = Append(@, Call(op, args))]
    /\ calls' = Append(calls, Call(op, args))
    /\ outstanding' = outstanding + 1
    /\ pc' = at
    /\ UNCHANGED <<err, raised>>

\* faulty variant: the client is the one constructed last, by any job
ClientOfLatest(j, tools) == Len(tools)

\* self.diagTool
ClientOf(j, tools) == j.diagTool

\* self.diagTool.op(args)
Invoke(op, args, at) ==
    InvokeOn(diagTools, ClientOf(job, diagTools), op, args, at)

\* faulty variant: only the number of parts of the address is checked
isIP4PartsOnly(ip) == Len(ip) = 4

\* assert.isIP(ip, 4)
isIP4(ip) == Len(ip) = 4 /\ \A i \in 1..Len(ip) : ip[i] \in 0..255

\* faulty variant: retry count and delay in the wrong order
DiscoveryArgsSwapped(j) == <<Num(j.retryCount), Num(j.retryDuration)>>

\* the arguments of retrySyncDiscovery, line 69
DiscoveryArgs(j) == <<Num(j.retryDuration), Num(j.retryCount)>>

\* Promise.try callback, lines 66-70
Run ==
    /\ pc = "run"
    /\ UNCHANGED <<cmdVars, current, other>>
    /\ IF isIP4(nodeIp)
       THEN /\ job' = [job EXCEPT !.diagTool = Len(diagTools) + 1]
            /\ InvokeOn(Append(diagTools,
                                DiagTool([host |-> nodeIp], job.nodeId)),
                        Len(diagTools) + 1,
                        "retrySyncDiscovery", DiscoveryArgs(job),
                        "retrySyncDiscovery")
       ELSE /\ Reject("getNodeIp", IsIPError)
            /\ UNCHANGED <<job, calls, diagTools, outstanding>>
    /\ UNCHANGED <<nodeIp, resolved, doneCalls, body, parsedMode,
                   attempts, waits>>

(***************************************************************************)
(* DiagTool.retrySyncDiscovery(delay, retries): attempts are made until    *)
(* one succeeds or `retries` of them have failed, `delay` ms apart.        *)
(***************************************************************************)
DiscoveryDelay == calls[Len(calls)].args[1].n

DiscoveryRetries == calls[Len(calls)].args[2].n

SyncDiscoverySucceeds ==
    /\ pc = "retrySyncDiscovery"
    /\ UNCHANGED <<cmdVars, current, other>>
    /\ attempts' = attempts + 1
    /\ outstanding' = outstanding - 1
    /\ resolved' = resolved + 1
    /\ pc' = "then_getAllDevices"
    /\ UNCHANGED <<job, nodeIp, calls, diagTools, doneCalls, err, body, parsedMode,
                   waits, raised>>

SyncDiscoveryFails ==
    /\ pc = "retrySyncDiscovery"
    /\ UNCHANGED <<cmdVars, current, other>>
    /\ attempts' = attempts + 1
    /\ IF attempts + 1 < DiscoveryRetries
       THEN /\ waits' = Append(waits, DiscoveryDelay)
            /\ UNCHANGED <<pc, err, raised, outstanding>>
       ELSE /\ Reject("retrySyncDiscovery", DiscoveryError)
            /\ outstanding' = outstanding - 1
            /\ UNCHANGED waits
    /\ UNCHANGED <<job, nodeIp, resolved, calls, diagTools, doneCalls, body, parsedMode>>

(***************************************************************************)
(* The agent answers the other calls                                       *)
(***************************************************************************)
\* faulty variant: the chain lacks the upload step
ContinuationSkippingUpload(at) ==
    CASE at = "getAllDevices"            -> "then_update"
      [] at = "uploadImageFile"          -> "then_update"
      [] at = "updateBmc.updateFirmware" -> "updateBmc_then"
      [] at = "updateSpi.updateFirmware" -> "updateSpi_then_validate"
      [] at = "bmcReset"                 -> "then_done"
      [] at = "warmReset"                -> "then_done"

\* faulty variant: nothing is chained after the reset
ContinuationEndingAtReset(at) ==
    CASE at = "getAllDevices"            -> "then_uploadImageFile"
      [] at = "uploadImageFile"          -> "then_update"
      [] at = "updateBmc.updateFirmware" -> "updateBmc_then"
      [] at = "updateSpi.updateFirmware" -> "updateSpi_then_validate"
      [] at = "bmcReset"                 -> "settled"
      [] at = "warmReset"                -> "settled"

\* the callback that runs when the awaited call resolves
Continuation(at) ==
    CASE at = "getAllDevices"            -> "then_uploadImageFile"
      [] at = "uploadImageFile"          -> "then_update"
      [] at = "updateBmc.updateFirmware" -> "updateBmc_then"
      [] at = "updateSpi.updateFirmware" -> "updateSpi_then_validate"
      [] at = "bmcReset"                 -> "then_done"
      [] at = "warmReset"                -> "then_done"

Awaiting ==
    {"getAllDevices", "uploadImageFile", "updateBmc.updateFirmware",
     "updateSpi.updateFirmware", "bmcReset", "warmReset"}

AgentResolves ==
    /\ pc \in Awaiting
    /\ UNCHANGED <<cmdVars, current, other>>
    /\ outstanding' = outstanding - 1
    /\ resolved' = resolved + 1
    /\ pc' = Continuation(pc)
    /\ IF pc = "updateSpi.updateFirmware"
       THEN body' \in Bodies
       ELSE UNCHANGED body
    /\ UNCHANGED <<job, nodeIp, calls, diagTools, doneCalls, err, parsedMode, attempts,
                   waits, raised>>

AgentRejects ==
    /\ pc \in Awaiting
    /\ UNCHANGED <<cmdVars, current, other>>
    /\ outstanding' = outstanding - 1
    /\ \E error \in AgentErrors : Reject(calls[Len(calls)].op, error)
    /\ UNCHANGED <<job, nodeIp, resolved, calls, diagTools, doneCalls, body, parsedMode,
                   attempts, waits>>

(***************************************************************************)
(* The .then callbacks of _run, lines 71-80                                *)
(***************************************************************************)
ThenGetAllDevices ==
    /\ pc = "then_getAllDevices"
    /\ UNCHANGED <<cmdVars, current, other>>
    /\ Invoke("getAllDevices", <<>>, "getAllDevices")
    /\ UNCHANGED <<job, nodeIp, resolved, doneCalls, body, parsedMode,
                   attempts, waits>>

ThenUploadImageFile ==
    /\ pc = "then_uploadImageFile"
    /\ UNCHANGED <<cmdVars, current, other>>
    /\ Invoke("uploadImageFile",
              <<job.imageUrl, job.imageName, Str("/api/upload/file")>>,
              "uploadImageFile")
    /\ UNCHANGED <<job, nodeIp, resolved, doneCalls, body, parsedMode,
                   attempts, waits>>

\* line 78
UpdateMethod(firmwareType) == "update" \o Capitalize(firmwareType)

\* updateBmc up to the call of updateFirmware, lines 146-150
updateBmc(imageName, imageMode, path) ==
    LET _imageMode == parseBmcMode(imageMode)
    IN  /\ parsedMode' = _imageMode
        /\ IF isIn(_imageMode, bmcValidModes)
           THEN Invoke("updateFirmware",
                       <<Str("bmc"), imageName, _imageMode, path>>,
                       "updateBmc.updateFirmware")
           ELSE /\ Reject("updateBmc", IsInError)
                /\ UNCHANGED <<calls, diagTools, outstanding>>

\* updateSpi up to the call of updateFirmware, lines 167-171
updateSpi(imageName, imageMode, path) ==
    LET _imageMode == parseSpiMode(imageMode)
    IN  /\ parsedMode' = _imageMode
        /\ IF isIn(_imageMode, spiValidModes)
           THEN Invoke("updateFirmware",
                       <<Str("spi"), imageName, _imageMode, path>>,
                       "updateSpi.updateFirmware")
           ELSE /\ Reject("updateSpi", IsInError)
                /\ UNCHANGED <<calls, diagTools, outstanding>>

\* lines 77-80
ThenUpdate ==
    /\ pc = "then_update"
    /\ UNCHANGED <<cmdVars, current, other>>
    /\ LET method == UpdateMethod(job.firmwareType)
       IN  CASE method = "updateBmc" ->
                  updateBmc(job.imageName, job.imageMode, job.diagImagePath)
             [] method = "updateSpi" ->
                  updateSpi(job.imageName, job.imageMode, job.diagImagePath)
             [] OTHER ->
                  /\ Reject("dispatch", NotAFunctionError)
                  /\ UNCHANGED <<calls, diagTools, outstanding, parsedMode>>
    /\ UNCHANGED <<job, nodeIp, resolved, doneCalls, body, attempts, waits>>

(***************************************************************************)
(* The .then callbacks of updateBmc and updateSpi                          *)
(***************************************************************************)
\* faulty variant: the test of skipReset is inverted
ResetRequestedInverted(j) == Truthy(j.skipReset)

\* !self.skipReset, lines 154 and 193
ResetRequested(j) == ~Truthy(j.skipReset)

\* lines 151-157
UpdateBmcThen ==
    /\ pc = "updateBmc_then"
    /\ UNCHANGED <<cmdVars, current, other>>
    /\ IF ResetRequested(job)
       THEN Invoke("bmcReset", <<Bool(FALSE)>>, "bmcReset")
       ELSE /\ pc' = "then_done"
            /\ UNCHANGED <<calls, diagTools, outstanding, err, raised>>
    /\ UNCHANGED <<job, nodeIp, resolved, doneCalls, body, parsedMode,
                   attempts, waits>>

\* lines 172-191
UpdateSpiThenValidate ==
    /\ pc = "updateSpi_then_validate"
    /\ UNCHANGED <<cmdVars, current, other>>
    /\ IF ParseFailed(body)
       THEN Reject("updateSpi validation", ResetFlagError)
       ELSE /\ pc' = "updateSpi_then_reset"
            /\ UNCHANGED <<err, raised>>
    /\ UNCHANGED <<job, nodeIp, resolved, calls, diagTools, outstanding, doneCalls, body,
                   parsedMode, attempts, waits>>

\* lines 192-196
UpdateSpiThenReset ==
    /\ pc = "updateSpi_then_reset"
    /\ UNCHANGED <<cmdVars, current, other>>
    /\ IF ResetRequested(job)
       THEN Invoke("warmReset", <<Bool(FALSE)>>, "warmReset")
       ELSE /\ pc' = "then_done"
            /\ UNCHANGED <<calls, diagTools, outstanding, err, raised>>
    /\ UNCHANGED <<job, nodeIp, resolved, doneCalls, body, parsedMode,
                   attempts, waits>>

(***************************************************************************)
(* Completion, lines 81-86.  _done is the base job's; a call of it returns *)
(* or throws.                                                              *)
(***************************************************************************)
DoneOutcomes == {"returns", "throws"}

\* faulty variant: .catch reports a generic error in place of the cause
CatchArgumentReplaced(error) == "Error: firmware update failed"

\* faulty variant: .catch swallows the error and reports success
CatchArgumentDropped(error) == NoArgument

\* the argument .catch hands to _done, line 85
CatchArgument(error) == error

\* lines 81-83
ThenDone ==
    /\ pc = "then_done"
    /\ UNCHANGED <<cmdVars, current, other>>
    /\ doneCalls' = Append(doneCalls, NoArgument)
    /\ \E outcome \in DoneOutcomes :
          IF outcome = "throws"
          THEN Reject("_done", DoneError)
          ELSE /\ pc' = "finished"
               /\ UNCHANGED <<err, raised>>
    /\ UNCHANGED <<job, nodeIp, resolved, calls, diagTools, outstanding, body,
                   parsedMode, attempts, waits>>

\* lines 84-86
Catch ==
    /\ pc = "catch"
    /\ UNCHANGED <<cmdVars, current, other>>
    /\ doneCalls' = Append(doneCalls, CatchArgument(err))
    /\ \E outcome \in DoneOutcomes :
          pc' = IF outcome = "throws" THEN "unhandled" ELSE "finished"
    /\ UNCHANGED <<job, nodeIp, resolved, calls, diagTools, outstanding, err, body,
                   parsedMode, attempts, waits, raised>>

Next ==
    \/ Run
    \/ SyncDiscoverySucceeds
    \/ SyncDiscoveryFails
    \/ AgentResolves
    \/ AgentRejects
    \/ ThenGetAllDevices
    \/ ThenUploadImageFile
    \/ ThenUpdate
    \/ UpdateBmcThen
    \/ UpdateSpiThenValidate
    \/ UpdateSpiThenReset
    \/ ThenDone
    \/ Catch

Spec == Init /\ [][Next]_vars

(***************************************************************************)
(* Two firmware update jobs: the callbacks of both run one at a time, in   *)
(* any order.  The job variables hold the job whose callback runs, `other` *)
(* the job that waits.                                                     *)
(***************************************************************************)
\* the state of the job whose callback runs
JobState ==
    [job |-> job, nodeIp |-> nodeIp, pc |-> pc, calls |-> calls,
     outstanding |-> outstanding, resolved |-> resolved,
     doneCalls |-> doneCalls, err |-> err, body |-> body,
     parsedMode |-> parsedMode, attempts |-> attempts, waits |-> waits,
     raised |-> raised]

\* options of the first job
FirstOptions(type, mode) ==
    [imageUrl     |-> Str("http://server/bmc.bin"),
     imageName    |-> Str("bmc.bin"),
     imageMode    |-> mode,
     firmwareType |-> type,
     skipReset    |-> Bool(FALSE)]

\* options of the second job
SecondOptions ==
    [imageUrl     |-> Str("http://server/ssp.bin"),
     imageName    |-> Str("ssp.bin"),
     imageMode    |-> Str("ssp"),
     firmwareType |-> Str("bmc"),
     skipReset    |-> Bool(TRUE)]

FirstIp == <<10, 1, 1, 3>>

\* the options of the first job and the nodeIp of the second: a second job
\* that runs to its end or fails at any step, or one that fails at once
\* beside a first job of either firmware type
TwoJobs ==
    {<<FirstOptions(Str("bmc"), mode), ip>> :
        mode \in {Str("fullbmc"), Num(3)},
        ip \in {<<10, 1, 1, 4>>, <<10, 1, 1, 256>>}}
    \cup {<<FirstOptions(Str("spi"), Num(3)), <<10, 1, 1, 256>>>>}

\* both jobs are constructed, none has run
TwoInit ==
    /\ \E jobs \in TwoJobs :
          /\ job = DiagUpdateFirmware(jobs[1], [target |-> "node1"])
          /\ other = Constructed(
                         DiagUpdateFirmware(SecondOptions,
                                            [target |-> "node2"]),
                         jobs[2])
    /\ nodeIp = FirstIp
    /\ pc = "run"
    /\ calls = <<>>
    /\ outstanding = 0
    /\ resolved = 0
    /\ doneCalls = <<>>
    /\ err = NoError
    /\ body = NoBody
    /\ parsedMode = Undef
    /\ attempts = 0
    /\ waits = <<>>
    /\ raised = NotRaised
    /\ diagTools = <<>>
    /\ current = 1
    /\ NoCommandJob

\* the next callback to run is one of the other job
Switch ==
    /\ current' = 3 - current
    /\ other' = JobState
    /\ job' = other.job
    /\ nodeIp' = other.nodeIp
    /\ pc' = other.pc
    /\ calls' = other.calls
    /\ outstanding' = other.outstanding
    /\ resolved' = other.resolved
    /\ doneCalls' = other.doneCalls
    /\ err' = other.err
    /\ body' = other.body
    /\ parsedMode' = other.parsedMode
    /\ attempts' = other.attempts
    /\ waits' = other.waits
    /\ raised' = other.raised
    /\ UNCHANGED <<diagTools, cmdVars>>

TwoNext ==
    \/ Run
    \/ SyncDiscoverySucceeds
    \/ SyncDiscoveryFails
    \/ AgentResolves
    \/ AgentRejects
    \/ ThenGetAllDevices
    \/ ThenUploadImageFile
    \/ ThenUpdate
    \/ UpdateBmcThen
    \/ UpdateSpiThenValidate
    \/ UpdateSpiThenReset
    \/ ThenDone
    \/ Catch
    \/ Switch

TwoSpec == TwoInit /\ [][TwoNext]_vars

(***************************************************************************)
(* The Linux command job: one job serving a node's pulls and its response  *)
(***************************************************************************)
\* no firmware update job in this run
NoFirmwareJob ==
    /\ job = DiagUpdateFirmware(
                 [imageUrl |-> Undef, imageName |-> Undef,
                  imageMode |-> Undef, firmwareType |-> Undef,
                  skipReset |-> Undef],
                 [target |-> ""])
    /\ nodeIp = <<>>
    /\ pc = "absent"
    /\ calls = <<>>
    /\ outstanding = 0
    /\ resolved = 0
    /\ doneCalls = <<>>
    /\ err = NoError
    /\ body = NoBody
    /\ parsedMode = Undef
    /\ attempts = 0
    /\ waits = <<>>
    /\ raised = NotRaised

\* the state after construction and _run(): both subscriptions are open
CmdInit ==
    /\ NoFirmwareJob
    /\ SingleJob
    /\ \E commands \in CommandLists :
          cmdJob = LinuxCommandJob([commands |-> commands,
                                    runOnlyOnce |-> TRUE],
                                   [target |-> "testid"])
    /\ hasSentCommands = FALSE
    /\ replies = <<>>
    /\ cmdPc = "subscribed"
    /\ response = <<>>
    /\ handled = 0
    /\ catalogCalls = <<>>
    /\ parsed = <<>>
    /\ created = <<>>
    /\ cmdErr = NoCmdError
    /\ cmdDone = <<>>

\* faulty variant: every request is answered with the commands
handleRequestIgnoringLatch(j, sent) == Payload(j.nodeId, j.commands)

\* what handleRequest returns, given the value of hasSentCommands
handleRequest(j, sent) ==
    IF sent THEN NoPayload ELSE Payload(j.nodeId, j.commands)

\* the node requests its commands: the request subscription's callback
HandleRequest ==
    /\ cmdPc # "absent"
    /\ Len(replies) < MaxPulls
    /\ replies' = Append(replies, handleRequest(cmdJob, hasSentCommands))
    /\ hasSentCommands' = TRUE
    /\ UNCHANGED <<cmdJob, cmdPc, response, handled, catalogCalls, parsed,
                   created, cmdErr, cmdDone>>
    /\ UNCHANGED <<fwVars, sysVars>>

\* the node's response arrives: the response subscription's callback calls
\* handleResponse(data)
ReceiveResponse ==
    /\ cmdPc = "subscribed"
    /\ \E tasks \in Responses : response' = tasks
    /\ handled' = handled + 1
    /\ cmdPc' = "handleResponse"
    /\ UNCHANGED <<cmdJob, hasSentCommands, replies, catalogCalls, parsed,
                   created, cmdErr, cmdDone>>
    /\ UNCHANGED <<fwVars, sysVars>>

\* faulty variant: every error fails, accepted or not
TaskFailedOnAnyError(task) == task.hasError

\* a task whose error code is not one of the codes it accepts
TaskFailed(task) ==
    /\ task.hasError
    /\ ~(task.accepted.defined /\ task.code \in task.accepted.codes)

\* the positions of the failed tasks of a response
FailedTasks(tasks) ==
    SelectSeq([i \in 1..Len(tasks) |-> i], LAMBDA i : TaskFailed(tasks[i]))

IsCatalogTask(task) == task.catalog

\* faulty variant: every task is cataloged
CatalogTasksUnfiltered(tasks) == tasks

\* the tasks of a response marked for cataloging
CatalogTasks(tasks) == SelectSeq(tasks, IsCatalogTask)

\* handleResponse: reject on a failed task, else catalog the marked tasks
HandleResponse ==
    /\ cmdPc = "handleResponse"
    /\ IF FailedTasks(response) # <<>>
       THEN /\ cmdErr' = FailureError(FailedTasks(response))
            /\ cmdPc' = "rejected"
            /\ UNCHANGED catalogCalls
       ELSE IF CatalogTasks(response) = <<>>
       THEN /\ cmdPc' = "resolved"
            /\ UNCHANGED <<cmdErr, catalogCalls>>
       ELSE /\ catalogCalls' = Append(catalogCalls, CatalogTasks(response))
            /\ cmdPc' = "parseUnknownTasks"
            /\ UNCHANGED cmdErr
    /\ UNCHANGED <<cmdJob, hasSentCommands, replies, response, handled,
                   parsed, created, cmdDone>>
    /\ UNCHANGED <<fwVars, sysVars>>

\* the parser answers catalogUserTasks with one result per task
ParserResolves ==
    /\ cmdPc = "parseUnknownTasks"
    /\ \E results \in [1..Len(catalogCalls[1]) ->
                          UNION {ParsedResults(i) : i \in 1..MaxTasks}] :
          /\ \A i \in 1..Len(results) : results[i] \in ParsedResults(i)
          /\ parsed' = results
    /\ cmdPc' = "catalogUserTasks"
    /\ UNCHANGED <<cmdJob, hasSentCommands, replies, response, handled,
                   catalogCalls, created, cmdErr, cmdDone>>
    /\ UNCHANGED <<fwVars, sysVars>>

\* a parsed result that is to be stored
IsStorable(result) == result.store /\ ~result.hasError

\* faulty variant: the source is stored as it is given
CatalogEntryAsGiven(j, result) ==
    [node |-> j.nodeId, source |-> result.source, data |-> result.data]

\* the entry created for a parsed result
CatalogEntry(j, result) ==
    [node |-> j.nodeId,
     source |-> IF result.hasSource THEN result.source ELSE "unknown",
     data |-> result.data]

\* the entries catalogUserTasks creates for the parser's results
CatalogEntries(j, results) ==
    LET storable == SelectSeq(results, IsStorable) IN
    [i \in 1..Len(storable) |-> CatalogEntry(j, storable[i])]

\* catalogUserTasks: create an entry for each storable result
CatalogUserTasks ==
    /\ cmdPc = "catalogUserTasks"
    /\ created' = CatalogEntries(cmdJob, parsed)
    /\ cmdPc' = IF created' = <<>> THEN "resolved" ELSE "create"
    /\ UNCHANGED <<cmdJob, hasSentCommands, replies, response, handled,
                   catalogCalls, parsed, cmdErr, cmdDone>>
    /\ UNCHANGED <<fwVars, sysVars>>

\* the catalog store acknowledges the entries
StoreResolves ==
    /\ cmdPc = "create"
    /\ cmdPc' = "resolved"
    /\ UNCHANGED <<cmdJob, hasSentCommands, replies, response, handled,
                   catalogCalls, parsed, created, cmdErr, cmdDone>>
    /\ UNCHANGED <<fwVars, sysVars>>

\* the catalog store fails: catalogUserTasks and handleResponse reject
StoreRejects ==
    /\ cmdPc = "create"
    /\ cmdErr' = PersistError
    /\ cmdPc' = "rejected"
    /\ UNCHANGED <<cmdJob, hasSentCommands, replies, response, handled,
                   catalogCalls, parsed, created, cmdDone>>
    /\ UNCHANGED <<fwVars, sysVars>>

\* .then(function() { self._done(); })
CmdThenDone ==
    /\ cmdPc = "resolved"
    /\ cmdDone' = Append(cmdDone, CmdNoArgument)
    /\ cmdPc' = "done"
    /\ UNCHANGED <<cmdJob, hasSentCommands, replies, response, handled,
                   catalogCalls, parsed, created, cmdErr>>
    /\ UNCHANGED <<fwVars, sysVars>>

\* faulty variant: the error is not handed on
CmdCatchArgumentDropped(error) == CmdNoArgument

\* the argument the .catch callback hands to _done
CmdCatchArgument(error) == error

\* .catch(function(err) { self._done(err); })
CmdCatch ==
    /\ cmdPc = "rejected"
    /\ cmdDone' = Append(cmdDone, CmdCatchArgument(cmdErr))
    /\ cmdPc' = "done"
    /\ UNCHANGED <<cmdJob, hasSentCommands, replies, response, handled,
                   catalogCalls, parsed, created, cmdErr>>
    /\ UNCHANGED <<fwVars, sysVars>>

CmdNext ==
    \/ HandleRequest
    \/ ReceiveResponse
    \/ HandleResponse
    \/ ParserResolves
    \/ CatalogUserTasks
    \/ StoreResolves
    \/ StoreRejects
    \/ CmdThenDone
    \/ CmdCatch

CmdSpec == CmdInit /\ [][CmdNext]_vars

(***************************************************************************)
(* Properties of a run                                                     *)
(***************************************************************************)
Terminal == {"finished", "unhandled"}

OpsOf(cs) == [i \in 1..Len(cs) |-> cs[i].op]

\* the update callback (lines 77-80) has run
UpdateEntered == resolved >= 3 /\ pc # "then_update"

\* C1: in every run _done is invoked exactly once, with no argument or with
\* an error, never twice, also when the success call of _done throws
C1_DoneInvokedExactlyOnce ==
    /\ Len(doneCalls) <= 1
    /\ pc \in Terminal => Len(doneCalls) = 1

\* C2: once a step has failed no further agent operation is invoked and
\* _done receives exactly the error that step raised
C2_FailureIsTerminal ==
    (raised # NotRaised /\ raised.step # "_done") =>
        /\ Len(calls) = raised.ncalls
        /\ pc \in Terminal \cup {"catch"}
        /\ pc = "catch" => doneCalls = <<>> /\ err = raised.error
        /\ pc \in Terminal => doneCalls = <<raised.error>>

C2_Witness ==
    /\ pc = "finished"
    /\ raised.step = "uploadImageFile"
    /\ raised.error = "ECONNRESET"
    /\ doneCalls = <<"ECONNRESET">>

\* C3: the agent operations are invoked in the order retrySyncDiscovery,
\* getAllDevices, uploadImageFile, updateFirmware, reset, each at most once
\* and only after all earlier ones succeeded, never two at a time, and
\* success is signalled only after the last of them has returned
C3_StrictSequence ==
    /\ Len(calls) <= 5
    /\ \A i \in 1..Len(calls) :
          calls[i].op \in
              CASE i = 1 -> {"retrySyncDiscovery"}
                [] i = 2 -> {"getAllDevices"}
                [] i = 3 -> {"uploadImageFile"}
                [] i = 4 -> {"updateFirmware"}
                [] i = 5 -> {"bmcReset", "warmReset"}
    /\ outstanding \in {0, 1}
    /\ Len(calls) <= resolved + 1
    /\ outstanding = 1 => Len(calls) = resolved + 1
    /\ (doneCalls # <<>> /\ doneCalls[1] = NoArgument) =>
          /\ outstanding = 0
          /\ resolved = Len(calls)
          /\ Len(calls) >= 4
          /\ job.skipReset = Bool(FALSE) => Len(calls) = 5

C3_Witness ==
    /\ pc = "finished"
    /\ doneCalls = <<NoArgument>>
    /\ OpsOf(calls) = <<"retrySyncDiscovery", "getAllDevices",
                        "uploadImageFile", "updateFirmware", "warmReset">>

\* C4: discovery is requested with delay 5000 and 6 retries, fails only
\* after exactly 6 failed attempts 5000 ms apart, is never attempted more
\* than 6 times, and a success stops the retrying and leads to getAllDevices
C4_BoundedDiscovery ==
    /\ calls # <<>> =>
          calls[1] = Call("retrySyncDiscovery", <<Num(5000), Num(6)>>)
    /\ attempts <= 6
    /\ \A i \in 1..Len(waits) : waits[i] = 5000
    /\ raised.step = "retrySyncDiscovery" =>
          /\ attempts = 6
          /\ Len(waits) = 5
          /\ raised.error = DiscoveryError
          /\ resolved = 0
    /\ (attempts > 0 /\ pc # "retrySyncDiscovery"
                     /\ raised.step # "retrySyncDiscovery") =>
          /\ resolved >= 1
          /\ Len(waits) = attempts - 1
    /\ Len(calls) >= 2 => calls[2].op = "getAllDevices"

C4_Witness ==
    /\ pc = "finished"
    /\ raised.step = "retrySyncDiscovery"
    /\ attempts = 6
    /\ doneCalls = <<DiscoveryError>>

\* C5: updateFirmware is only ever called with a mode of the valid set of
\* its kind; a translated mode outside the set fails the job with the
\* validation error before updateFirmware is called
C5_OnlyValidModes ==
    /\ \A i \in 1..Len(calls) :
          calls[i].op = "updateFirmware" =>
             LET kind == calls[i].args[1]
                 mode == calls[i].args[3]
             IN  /\ kind \in {Str("bmc"), Str("spi")}
                 /\ mode.t = "string"
                 /\ kind = Str("bmc") =>
                       mode.s \in {"0x142", "0x140", "0x144", "0x145", "0x5f"}
                 /\ kind = Str("spi") =>
                       mode.s \in {"0", "1", "2", "3", "4", "5"}
    /\ (UpdateEntered /\ job.firmwareType \in {Str("bmc"), Str("spi")}) =>
          LET valid == /\ parsedMode.t = "string"
                       /\ parsedMode.s \in
                             IF job.firmwareType = Str("bmc")
                             THEN {"0x142", "0x140", "0x144", "0x145", "0x5f"}
                             ELSE {"0", "1", "2", "3", "4", "5"}
          IN  ~valid =>
                 /\ raised.error = IsInError
                 /\ raised.ncalls = 3
                 /\ Len(calls) = 3

C5_Witness ==
    /\ pc = "finished"
    /\ job.firmwareType = Str("bmc")
    /\ job.imageMode = Str("0x999")
    /\ parsedMode = Str("0x999")
    /\ doneCalls = <<IsInError>>
    /\ Len(calls) = 3

\* the second-to-last entry of the result sequence carries the reset prompt
SecondToLastIsPrompt(b) ==
    /\ b.defined
    /\ b.result.kind = "array"
    /\ b.result.length >= 2
    /\ b.result.props[DecimalString(b.result.length - 2)]
          = EntryFlag("Issue warm reset NOW!")

\* the answer to updateFirmware('spi', ...) has been examined
SpiValidated ==
    /\ Len(calls) >= 4
    /\ calls[4].args[1] = Str("spi")
    /\ resolved >= 4
    /\ pc # "updateSpi_then_validate"

\* C6: an SPI update is accepted only when the second-to-last entry of the
\* result sequence carries exactly 'Issue warm reset NOW!'; for every other
\* body the job fails with the reset-flag error and no warm reset is made
C6_AcceptedOnlyOnPrompt ==
    SpiValidated =>
        IF SecondToLastIsPrompt(body)
        THEN raised.step # "updateSpi validation"
        ELSE /\ raised = [step |-> "updateSpi validation",
                          error |-> ResetFlagError, ncalls |-> 4]
             /\ Len(calls) = 4
             /\ pc \in Terminal => doneCalls = <<ResetFlagError>>

IsReset(c) == c.op \in {"bmcReset", "warmReset"}

\* the update was accepted and the decision about the reset has been taken
UpdateAccepted ==
    /\ Len(calls) >= 4
    /\ resolved >= 4
    /\ \/ calls[4].args[1] = Str("bmc") /\ pc # "updateBmc_then"
       \/ /\ SpiValidated
          /\ raised.step # "updateSpi validation"
          /\ pc # "updateSpi_then_reset"

\* C7: a reset is invoked iff skipReset is false and the update was
\* accepted: once, after updateFirmware, bmcReset on the bmc path and
\* warmReset on the spi path, always with the flag false
C7_ResetIffRequestedAndAccepted ==
    /\ \A i \in 1..Len(calls) :
          IsReset(calls[i]) =>
             /\ \A j \in 1..Len(calls) : IsReset(calls[j]) => j = i
             /\ calls[i].args = <<Bool(FALSE)>>
             /\ job.skipReset = Bool(FALSE)
             /\ i > 4
             /\ calls[4].op = "updateFirmware"
             /\ resolved >= 4
             /\ calls[i].op = "bmcReset" <=> calls[4].args[1] = Str("bmc")
             /\ calls[i].op = "warmReset" <=> calls[4].args[1] = Str("spi")
             /\ calls[i].op = "warmReset" =>
                   (raised = NotRaised \/ raised.ncalls = Len(calls))
    /\ UpdateAccepted =>
          (job.skipReset = Bool(FALSE)
              <=> \E i \in 1..Len(calls) : IsReset(calls[i]))

C7_Witness ==
    /\ pc = "finished"
    /\ job.skipReset = Bool(FALSE)
    /\ doneCalls = <<NoArgument>>
    /\ calls[4].args[1] = Str("bmc")
    /\ calls[5] = Call("bmcReset", <<Bool(FALSE)>>)

ValidSpiInputs ==
    {Str(x) : x \in {"fullbios", "bios", "uefi", "serdes", "post", "me"}}
    \cup {Num(k) : k \in 0..5}
    \cup {Str(x) : x \in {"0", "1", "2", "3", "4", "5"}}

ExpectedSpiMode(v) ==
    CASE v = Str("fullbios") -> "0"
      [] v = Str("bios")     -> "1"
      [] v = Str("uefi")     -> "2"
      [] v = Str("serdes")   -> "3"
      [] v = Str("post")     -> "4"
      [] v = Str("me")       -> "5"
      [] v.t = "number"      -> <<"0", "1", "2", "3", "4", "5">>[v.n + 1]
      [] OTHER               -> v.s

\* C8: parseSpiMode maps fullbios, bios, uefi, serdes, post, me to '0'..'5'
\* and an integer or numeric string of 0..5 to the string of that number
C8_ValidSpiTranslation ==
    (/\ UpdateEntered
     /\ job.firmwareType = Str("spi")
     /\ job.imageMode \in ValidSpiInputs) =>
        parsedMode = Str(ExpectedSpiMode(job.imageMode))

C8_Witness ==
    /\ pc = "finished"
    /\ job.firmwareType = Str("spi")
    /\ job.imageMode = Num(4)
    /\ parsedMode = Str("4")
    /\ calls[4].args[3] = Str("4")

\* C9: parseSpiMode returns the decimal string of the integer its input
\* parses as, and otherwise the entry of the SPI mapping, undefined for a
\* string the mapping does not have
C9_SpiTranslation ==
    (UpdateEntered /\ job.firmwareType = Str("spi")) =>
        parsedMode =
            IF ~ParseInt(job.imageMode).nan
            THEN Str(DecimalString(ParseInt(job.imageMode).n))
            ELSE IF JsToString(job.imageMode) \in
                       {"fullbios", "bios", "uefi", "serdes", "post", "me"}
                 THEN Str(ExpectedSpiMode(job.imageMode))
                 ELSE Undef

\* C10: parseBmcMode maps ssp, bmcapp, bootblock, adaptivecooling, fullbmc to
\* their codes, returns an input that begins with '0x' unchanged, and
\* returns undefined for any other input
C10_BmcTranslation ==
    (UpdateEntered /\ job.firmwareType = Str("bmc")) =>
        parsedMode =
            CASE job.imageMode = Str("ssp")             -> Str("0x142")
              [] job.imageMode = Str("bmcapp")          -> Str("0x140")
              [] job.imageMode = Str("bootblock")       -> Str("0x144")
              [] job.imageMode = Str("adaptivecooling") -> Str("0x145")
              [] job.imageMode = Str("fullbmc")         -> Str("0x5f")
              [] OTHER ->
                   IF /\ job.imageMode.t = "string"
                      /\ Len(job.imageMode.s) >= 2
                      /\ SubSeq(job.imageMode.s, 1, 2) = "0x"
                   THEN job.imageMode
                   ELSE Undef

\* context.nodeIp is not a well-formed IPv4 address
MalformedIp == Len(nodeIp) # 4 \/ \E i \in 1..Len(nodeIp) : nodeIp[i] > 255

\* C11: with a malformed nodeIp the job fails at once with the validation
\* error: no discovery attempt and no other agent operation is made, and
\* _done receives that validation error
C11_MalformedIpFailsImmediately ==
    (MalformedIp /\ pc # "run") =>
        /\ calls = <<>>
        /\ attempts = 0
        /\ waits = <<>>
        /\ outstanding = 0
        /\ pc \in Terminal \cup {"catch"}
        /\ err = "AssertionError: isIP"
        /\ pc \in Terminal => doneCalls = <<"AssertionError: isIP">>

C11_Witness ==
    /\ nodeIp = <<10, 1, 1, 256>>
    /\ pc = "finished"
    /\ calls = <<>>
    /\ doneCalls = <<IsIPError>>

\* C12: a job with a malformed nodeIp is never constructed, so _run never
\* executes on a job whose nodeIp is malformed
C12_MalformedIpNeverRuns == pc # "run" => ~MalformedIp

\* C12 as the code has it: the constructor does not look at nodeIp; a job
\* with a malformed nodeIp is constructed and started, and the address is
\* rejected by getNodeIp in the first callback of _run
C12_MalformedIpRejectedByRun ==
    MalformedIp =>
        /\ job.retryCount = 6 /\ job.diagImagePath = Str("/uploads")
        /\ \/ pc = "run" /\ raised = NotRaised /\ doneCalls = <<>>
           \/ raised = [step |-> "getNodeIp", error |-> IsIPError, ncalls |-> 0]

C12_Witness ==
    /\ nodeIp = <<10, 1, 1>>
    /\ pc = "catch"
    /\ raised.step = "getNodeIp"
    /\ doneCalls = <<>>

\* the result array of the answer has no second-to-last entry
LacksSecondToLast(b) ==
    b.defined /\ b.result.kind = "array" /\ b.result.length < 2

\* the scenario of C13 for a given firmwareType
Scenario13(type) ==
    (job.firmwareType = Str(type) /\ job.imageMode = Num(3) /\ UpdateEntered)
    =>  /\ parsedMode = Str("3")
        /\ Len(calls) >= 4
        /\ calls[4] = Call("updateFirmware",
                           <<Str("spi"), job.imageName, Str("3"),
                             Str("/uploads")>>)
        /\ (SpiValidated /\ LacksSecondToLast(body)) =>
              /\ err = ResetFlagError
              /\ Len(calls) = 4
              /\ pc \in Terminal => doneCalls = <<ResetFlagError>>

\* C13: with firmwareType 'bios' and imageMode 3 the mode translates to '3',
\* updateFirmware('spi', imageName, '3', diagImagePath) is invoked, and an
\* answer without a second-to-last result entry fails the job with the
\* reset-flag error and no reset
C13_BiosScenario == Scenario13("bios")

\* C13 with firmwareType 'spi', the type that selects updateSpi
C13_SpiScenario == Scenario13("spi")

C13_Witness ==
    /\ job.firmwareType = Str("spi")
    /\ job.imageMode = Num(3)
    /\ pc = "finished"
    /\ body.result = ArrayOf(<<EntryFlag(ResetPrompt)>>)
    /\ OpsOf(calls) = <<"retrySyncDiscovery", "getAllDevices",
                        "uploadImageFile", "updateFirmware">>
    /\ doneCalls = <<ResetFlagError>>

\* C19: the update procedure follows from firmwareType alone: 'bmc' gives
\* updateFirmware of kind 'bmc' only, 'spi' of kind 'spi' only, and any
\* other value fails the job without updateFirmware or a reset
C19_SelectedByTypeAlone ==
    /\ \A i \in 1..Len(calls) :
          calls[i].op = "updateFirmware" =>
             \/ job.firmwareType = Str("bmc") /\ calls[i].args[1] = Str("bmc")
             \/ job.firmwareType = Str("spi") /\ calls[i].args[1] = Str("spi")
    /\ (job.firmwareType \notin {Str("bmc"), Str("spi")} /\ UpdateEntered) =>
          /\ err # NoError
          /\ Len(calls) = 3

(***************************************************************************)
(* Progress.  The event loop runs every callback that is ready, and the    *)
(* agent answers every call: each step of the run that can be taken is     *)
(* taken eventually.                                                       *)
(***************************************************************************)
FairImageModes ==
    {Str("serdes"), Num(3), Str("3abc"), Str("fullbmc"), Str("0x140"),
     Str("0x999"), Str("constructor"), Undef}

FairInit == InitWith(FairImageModes) /\ NoCommandJob /\ SingleJob

FairSpec == FairInit /\ [][Next]_vars /\ WF_vars(Next)

\* the steps of a run in the order of the chain
StepOrder ==
    <<"run", "retrySyncDiscovery", "then_getAllDevices", "getAllDevices",
      "then_uploadImageFile", "uploadImageFile", "then_update",
      "updateBmc.updateFirmware", "updateSpi.updateFirmware",
      "updateBmc_then", "updateSpi_then_validate", "updateSpi_then_reset",
      "bmcReset", "warmReset", "then_done", "catch", "finished", "unhandled">>

Position(step) ==
    IF \E i \in 1..Len(StepOrder) : StepOrder[i] = step
    THEN CHOOSE i \in 1..Len(StepOrder) : StepOrder[i] = step
    ELSE 0

\* C20: every run reaches a terminal outcome when the agent answers every
\* call, and no step of it leads back to an earlier step: a step moves
\* forward in the chain or is one more of at most 6 discovery attempts
C20_RunTerminates ==
    /\ <>(pc \in Terminal /\ Len(doneCalls) >= 1)
    /\ [][\/ Position(pc') > Position(pc)
          \/ /\ pc' = pc
             /\ pc = "retrySyncDiscovery"
             /\ attempts' = attempts + 1
             /\ attempts' < 6]_vars

C20_Witness ==
    /\ pc \in Terminal
    /\ attempts = 3
    /\ resolved = 5
    /\ Len(doneCalls) = 1

(***************************************************************************)
(* Properties of a command job                                             *)
(***************************************************************************)
CmdSettled == {"resolved", "rejected", "done"}

\* handleResponse is past its validation of the response
Validated == cmdPc \notin {"absent", "subscribed", "handleResponse"}

\* a task with an error whose code the task itself does not accept; no
\* accepted codes given means none accepted
Unaccepted(task) ==
    task.hasError
    /\ (IF task.accepted.defined THEN task.accepted.codes ELSE {})
          \cap {task.code} = {}

UnacceptedAt(tasks) == {i \in 1..Len(tasks) : Unaccepted(tasks[i])}

C15_RejectsIffUnaccepted ==
    cmdPc \in CmdSettled =>
        ((cmdErr # NoCmdError) <=> (UnacceptedAt(response) # {}))

\* C15: handleResponse rejects with 'Encountered a failure', naming the
\* offending tasks, if and only if some task has an error whose code that
\* task does not accept; with none it rejects only with the catalog
\* store's error.
C15_FailureIffUnaccepted ==
    Validated =>
        /\ (cmdErr.kind = "Error: Encountered a failure")
               <=> (UnacceptedAt(response) # {})
        /\ UnacceptedAt(response) # {} =>
               {cmdErr.tasks[i] : i \in 1..Len(cmdErr.tasks)}
                   = UnacceptedAt(response)
        /\ UnacceptedAt(response) = {} =>
               cmdErr \in {NoCmdError, PersistError}

C15_Witness ==
    /\ cmdPc = "resolved"
    /\ \E i \in 1..Len(response) :
          response[i].hasError /\ response[i].code = 1
    /\ cmdErr = NoCmdError

\* C16: the cataloger receives exactly the tasks marked catalog, in their
\* order in the response; it is not called when no task is marked, and
\* nothing is cataloged for a response with an unaccepted error.
C16_CatalogsMarkedTasks ==
    /\ Len(catalogCalls) <= 1
    /\ ~Validated => catalogCalls = <<>> /\ created = <<>>
    /\ Validated =>
          LET marked == {i \in 1..Len(response) : response[i].catalog} IN
          IF UnacceptedAt(response) # {}
          THEN catalogCalls = <<>> /\ parsed = <<>> /\ created = <<>>
          ELSE IF marked = {}
          THEN catalogCalls = <<>>
          ELSE /\ Len(catalogCalls) = 1
               /\ Len(catalogCalls[1]) = Cardinality(marked)
               /\ \A k \in 1..Len(catalogCalls[1]) :
                     /\ catalogCalls[1][k].catalog
                     /\ \E i \in marked :
                           /\ response[i] = catalogCalls[1][k]
                           /\ Cardinality({m \in marked : m < i}) = k - 1

C16_Witness ==
    /\ Len(response) = 2
    /\ response[1].catalog # response[2].catalog
    /\ Len(catalogCalls) = 1
    /\ Len(catalogCalls[1]) = 1

\* C17: create is called once for each parsed result that is to be stored
\* and has no error, and for no other; each entry carries the job's nodeId,
\* the result's data and the result's source, or 'unknown' without one.
C17_CreatesStorableEntries ==
    /\ cmdPc \in {"create", "resolved", "rejected", "done"}
           /\ catalogCalls # <<>> =>
          LET kept == {i \in 1..Len(parsed) :
                          parsed[i].store /\ ~parsed[i].hasError} IN
          /\ Len(created) = Cardinality(kept)
          /\ \A i \in kept :
                LET k == Cardinality({m \in kept : m <= i}) IN
                /\ created[k].node = "testid"
                /\ created[k].data = parsed[i].data
                /\ created[k].source =
                       (IF parsed[i].hasSource THEN parsed[i].source
                        ELSE "unknown")
    /\ \A k \in 1..Len(created) : created[k].source # ""

C17_Witness ==
    /\ cmdPc = "create"
    /\ Len(parsed) = 2
    /\ parsed[1].store /\ ~parsed[1].hasError /\ ~parsed[1].hasSource
    /\ parsed[2].hasError /\ parsed[2].store
    /\ created = <<[node |-> "testid", source |-> "unknown",
                    data |-> "test data 1"]>>

\* C18: a response is handed to handleResponse once, and _done is called
\* exactly once, after handleResponse settles: without an argument when
\* validation and cataloging resolve, with the rejection's error otherwise.
C18_DoneOnceAfterSettling ==
    /\ [](/\ handled = (IF cmdPc = "subscribed" THEN 0 ELSE 1)
          /\ Len(cmdDone) = (IF cmdPc = "done" THEN 1 ELSE 0)
          /\ cmdPc = "done" =>
                /\ cmdDone[1] = (IF cmdErr = NoCmdError THEN CmdNoArgument
                                 ELSE cmdErr)
                /\ UnacceptedAt(response) # {} =>
                      cmdDone[1].kind = "Error: Encountered a failure")
    /\ [][cmdPc' = "done" /\ cmdPc # "done" =>
              /\ cmdPc \in {"resolved", "rejected"}
              /\ (cmdPc = "resolved") = (cmdErr = NoCmdError)
              /\ cmdErr' = cmdErr]_vars

C18_Witness ==
    /\ cmdPc = "done"
    /\ created # <<>>
    /\ cmdDone = <<PersistError>>

(***************************************************************************)
(* Properties of two jobs                                                  *)
(***************************************************************************)
\* the state of the k-th job
JobOf(k) == IF current = k THEN JobState ELSE other

\* the agent calls a job with these fields makes when nothing fails
CallsAlone(j) ==
    <<Call("retrySyncDiscovery", <<Num(5000), Num(6)>>),
      Call("getAllDevices", <<>>),
      Call("uploadImageFile",
           <<j.imageUrl, j.imageName, Str("/api/upload/file")>>),
      Call("updateFirmware",
           <<j.firmwareType, j.imageName,
             IF j.firmwareType = Str("spi")
             THEN Str(DecimalString(j.imageMode.n))
             ELSE IF j.imageMode = Str("ssp") THEN Str("0x142")
             ELSE Str("0x5f"),
             Str("/uploads")>>),
      Call(IF j.firmwareType = Str("spi") THEN "warmReset" ELSE "bmcReset",
           <<Bool(FALSE)>>)>>

\* what a job run alone does, told from its own fields only: a malformed
\* nodeIp or a mode that is not valid stops it at that step, it makes the
\* calls of CallsAlone in order up to the step that fails, and _done
\* first receives the error of that step, or nothing when no step fails
AsAlone(s) ==
    /\ Len(s.calls) <= (IF s.job.skipReset = Bool(TRUE) THEN 4 ELSE 5)
    /\ s.calls = SubSeq(CallsAlone(s.job), 1, Len(s.calls))
    /\ ~isIP4(s.nodeIp) /\ s.pc # "run" =>
          s.calls = <<>> /\ s.err = IsIPError
    /\ isIP4(s.nodeIp) => s.err # IsIPError
    /\ s.job.firmwareType = Str("bmc") /\ s.job.imageMode = Num(3) =>
          /\ Len(s.calls) <= 3
          /\ s.resolved = 3 /\ s.pc # "then_update" => s.err = IsInError
    /\ s.err = IsInError =>
          s.job.firmwareType = Str("bmc") /\ s.job.imageMode = Num(3)
    /\ s.pc \in Terminal =>
          /\ Len(s.doneCalls) >= 1
          /\ s.doneCalls[1] =
                 (IF s.raised.step \in {"", "_done"} THEN NoArgument
                  ELSE s.raised.error)
          /\ s.raised.step \in {"", "_done"} =>
                Len(s.calls) = (IF s.job.skipReset = Bool(TRUE) THEN 4
                                ELSE 5)

\* a job's calls are made on its own agent client, which no other job uses
OwnClient(k) ==
    LET s == JobOf(k) IN
    IF s.job.diagTool = NoDiagTool
    THEN s.calls = <<>>
    ELSE /\ s.job.diagTool \in 1..Len(diagTools)
         /\ s.job.diagTool # JobOf(3 - k).job.diagTool
         /\ diagTools[s.job.diagTool].host = s.nodeIp
         /\ diagTools[s.job.diagTool].nodeId = s.job.nodeId
         /\ diagTools[s.job.diagTool].received = s.calls

\* C21: two jobs whose callbacks interleave share no state: each makes its
\* calls on its own agent client, a callback of one job changes nothing of
\* the other job, and the calls and the outcome of each job are those of
\* the job run alone, whatever the other does.
C21_JobsAreIndependent ==
    /\ [](\A k \in {1, 2} : OwnClient(k) /\ AsAlone(JobOf(k)))
    /\ [][\E k \in {1, 2} : JobOf(k)' = JobOf(k)]_vars
    /\ [][\A k \in {1, 2} :
             JobOf(k)' # JobOf(k) => current = k /\ current' = k]_vars

C21_Witness ==
    /\ JobOf(1).pc = "bmcReset"
    /\ Len(JobOf(1).calls) = 5
    /\ JobOf(2).pc \in Terminal
    /\ Len(JobOf(2).calls) = 2
    /\ JobOf(2).err = "ECONNRESET"
    /\ diagTools[1].nodeId = "node2"
    /\ current = 2

====
